---------------------------- MODULE Spec2Model ----------------------------
(***************************************************************************)
(* Model of dataprep/preprocess_dataset.py: the 171-value feature vector,  *)
(* the per-video sliding window of process_video, the mirror augmentation  *)
(* of augment_mirror_frame and the dataset assembly of main.               *)
(*                                                                         *)
(* Coordinates are exact fixed-point numbers: the integer Unit stands for  *)
(* the float 1.0, so 1.0 - x is Unit - x and 0.2 is 200.                   *)
(*                                                                         *)
(* numpy arrays are objects.  A basic slice and a reshape of a contiguous  *)
(* array are views, so an assignment through them writes into the array    *)
(* the caller passed.  Where the code does that, the operator returns both *)
(* the value the function returns and the value the argument holds after   *)
(* the call.                                                               *)
(***************************************************************************)
EXTENDS Integers, Sequences, FiniteSets, TLC

\* ------------------------------------------------------------------ bounds
MaxFrames == 31
MaxCalls == 2
MaxVideos == 2
MaxMirrorLen == 2

\* ------------------------------------------------------- program constants
SEQUENCE_LENGTH == 30
INPUT_DIM == 171
HAND_DIM == 63
POSE_DIM == 45
POSE_INDICES == [i \in 1..15 |-> i - 1]
Unit == 1000

None == <<>>

\* np.zeros(n)
Zeros(n) == [i \in 1..n |-> 0]

\* np.sum over a 1-D array (pairwise, as numpy adds; the arithmetic is exact)
RECURSIVE SumRange(_, _, _)
SumRange(a, lo, hi) ==
    IF lo > hi THEN 0
    ELSE IF lo = hi THEN a[lo]
    ELSE LET mid == (lo + hi) \div 2
         IN  SumRange(a, lo, mid) + SumRange(a, mid + 1, hi)

Sum(a) == SumRange(a, 1, Len(a))

\* temp.extend([lm.x, lm.y, lm.z]) for every landmark of a list, in order
Flatten(landmarks) ==
    [i \in 1..(3 * Len(landmarks)) |->
        LET lm == landmarks[((i - 1) \div 3) + 1]
        IN  CASE (i - 1) % 3 = 0 -> lm.x
              [] (i - 1) % 3 = 1 -> lm.y
              [] OTHER           -> lm.z]

\* ---------------------------------------------------- the external detector
\* What holistic.process returns for one decoded frame: three optional
\* landmark lists.  The tag g makes the frames of a stream differ from one
\* another, so that a window is recognisable by its content.
HandLandmarks(g, side) ==
    [i \in 1..(HAND_DIM \div 3) |->
        [x |-> IF side = "left" THEN g + i ELSE Unit - g - i,
         y |-> 10 * i,
         z |-> 0 - i]]

\* A detected hand whose 63 raw coordinates add up to exactly zero.
ZeroSumLandmarks(g) ==
    [i \in 1..(HAND_DIM \div 3) |-> [x |-> g + i, y |-> 0, z |-> 0 - (g + i)]]

\* The example of the documentation: 21 identical points (0.2, 0.5, 0.1).
ExampleLandmarks ==
    [i \in 1..(HAND_DIM \div 3) |-> [x |-> 200, y |-> 500, z |-> 100]]

\* The detector's pose list is longer than the 15 landmarks that are read.
PoseLandmarks(g) ==
    [i \in 1..(Len(POSE_INDICES) + 2) |-> [x |-> 2 * g + i, y |-> 500 + i, z |-> i]]

HandOf(kind, g, side) ==
    CASE kind = "points"  -> HandLandmarks(g, side)
      [] kind = "zerosum" -> ZeroSumLandmarks(g)
      [] kind = "example" -> ExampleLandmarks
      [] OTHER            -> None

Results(lk, rk, pose, g) ==
    [left_hand_landmarks  |-> HandOf(lk, g, "left"),
     right_hand_landmarks |-> HandOf(rk, g, "right"),
     pose_landmarks       |-> IF pose THEN PoseLandmarks(g) ELSE None]

\* --------------------------------------------------------- extract_keypoints
extract_keypoints(results) ==
    LET lh == IF results.left_hand_landmarks # None
              THEN Flatten(results.left_hand_landmarks)
              ELSE Zeros(HAND_DIM)
        rh == IF results.right_hand_landmarks # None
              THEN Flatten(results.right_hand_landmarks)
              ELSE Zeros(HAND_DIM)
        pose == IF results.pose_landmarks # None
                THEN Flatten([k \in 1..Len(POSE_INDICES) |->
                                results.pose_landmarks[POSE_INDICES[k] + 1]])
                ELSE Zeros(POSE_DIM)
    IN  lh \o rh \o pose

\* ------------------------------------------------------ augment_mirror_frame
\* features[a:b], 0-based and half open
Slice(features, a, b) == SubSeq(features, a + 1, b)

\* block[:, 0] = 1.0 - block[:, 0] on a block reshaped to (-1, 3)
FlipX(block) ==
    [i \in 1..Len(block) |-> IF (i - 1) % 3 = 0 THEN Unit - block[i] ELSE block[i]]

\* lh, rh and pose are views of features, so the three assignments write
\* into features; flatten() then copies the flipped blocks into the result.
\* ret is the returned array, features the argument after the call.
augment_mirror_frame(features) ==
    LET lh   == FlipX(Slice(features, 0, HAND_DIM))
        rh   == FlipX(Slice(features, HAND_DIM, 2 * HAND_DIM))
        pose == FlipX(Slice(features, 2 * HAND_DIM, INPUT_DIM))
    IN  [ret      |-> rh \o lh \o pose,
         features |-> lh \o rh \o pose]

\* np.array([augment_mirror_frame(frame) for frame in seq]): the rows of seq
\* are views of seq, so seq itself holds the flipped rows afterwards.
\* (Concatenating <<>> only makes the calls be evaluated once.)
MirrorSeq(seq) ==
    LET calls == [k \in 1..Len(seq) |-> augment_mirror_frame(seq[k])] \o <<>>
    IN  [ret |-> [k \in 1..Len(seq) |-> calls[k].ret],
         seq |-> [k \in 1..Len(seq) |-> calls[k].features]]

\* ---------------------------------------------------------------- the state
VARIABLES
    \* process_video
    call,           \* which video process_video is working on (1, 2, ...)
    wpc,            \* "off", "idle", "loop" (inside the while loop), "returned"
    pos,            \* frames cap.read() has delivered for this video
    keypoints,      \* the feature vector of the frame last read
    frame_window,   \* the sliding buffer
    sequences,      \* the sequences emitted so far for this video
    returned,       \* the value process_video returned
    run,            \* history: length of the current unbroken presence-true run
    longest,        \* history: length of the longest presence-true run so far
    \* main
    dataset_dir,    \* the dataset directory: entry name -> [isdir, videos]
    pc,             \* "off", "start", "classes", "videos", "done"
    actions,        \* sorted(os.listdir(dataset_path))
    label_map,      \* entry name -> number
    ai,             \* entries of actions the outer loop has finished
    videos,         \* os.listdir(action_path) of the class being processed
    vi,             \* videos of that class the inner loop has finished
    X_data,         \* the samples
    y_data,         \* their labels
    saved,          \* whether X.npy and y.npy were written
    emitted,        \* history: what process_video returned, call by call
    \* augment_mirror_frame applied to a sequence, and to the result again
    m_in,           \* the detector's results the sequence was built from
    seq,            \* the sequence the caller holds
    mirrored,       \* the array the first application returned
    twice,          \* the array the second application returned
    xpc             \* "off", "built", "once", "twice"

wvars == <<call, wpc, pos, keypoints, frame_window, sequences, returned, run, longest>>
mvars == <<dataset_dir, pc, actions, label_map, ai, videos, vi, X_data, y_data,
          saved, emitted>>
xvars == <<m_in, seq, mirrored, twice, xpc>>
vars == <<wvars, mvars, xvars>>

WindowOff ==
    /\ call = 0 /\ wpc = "off" /\ pos = 0 /\ keypoints = None
    /\ frame_window = <<>> /\ sequences = <<>> /\ returned = None
    /\ run = 0 /\ longest = 0

MainOff ==
    /\ dataset_dir = <<>> /\ pc = "off" /\ actions = <<>> /\ label_map = <<>>
    /\ ai = 0 /\ videos = <<>> /\ vi = 0 /\ X_data = <<>> /\ y_data = <<>>
    /\ saved = FALSE /\ emitted = <<>>

MirrorOff ==
    /\ m_in = <<>> /\ seq = <<>> /\ mirrored = None /\ twice = None /\ xpc = "off"

\* -------------------------------------------------------------- process_video
\* The content of the frame at position t of video v, by what the detector
\* saw in it.  Which hands and whether the pose are visible varies with the
\* position, so a window mixes left-only, right-only and two-handed frames.
FrameKinds == {"hands", "none", "poseonly", "zerosum"}

Tag(v, t) == (v - 1) * (MaxFrames + 1) + t

FrameResults(kind, g) ==
    CASE kind = "hands" ->
            Results(IF g % 3 # 1 THEN "points" ELSE "none",
                    IF g % 3 # 2 THEN "points" ELSE "none",
                    g % 2 = 0, g)
      [] kind = "zerosum" ->
            Results("zerosum", IF g % 2 = 0 THEN "zerosum" ELSE "none", TRUE, g)
      [] kind = "poseonly" -> Results("none", "none", TRUE, g)
      [] OTHER -> Results("none", "none", FALSE, g)

has_left(kp) == Sum(Slice(kp, 0, HAND_DIM)) # 0
has_right(kp) == Sum(Slice(kp, HAND_DIM, 2 * HAND_DIM)) # 0

\* Mutant: the buffer outlives the video it was filled from.
NewBuffer_Stale == frame_window

\* frame_window = [] on entry to process_video
NewBuffer == <<>>

\* Mutant: the window is cleared after an emission instead of sliding by one.
WindowStep_NoOverlap(fw, sq, kp) ==
    LET fw1 == IF has_left(kp) \/ has_right(kp)
               THEN Append(fw, kp)
               ELSE IF Len(fw) > 0 THEN <<>> ELSE fw
    IN  IF Len(fw1) = SEQUENCE_LENGTH
        THEN [frame_window |-> <<>>, sequences |-> Append(sq, fw1)]
        ELSE [frame_window |-> fw1, sequences |-> sq]

\* Mutant: a frame without hands is skipped and the buffer is kept.
WindowStep_NoReset(fw, sq, kp) ==
    LET fw1 == IF has_left(kp) \/ has_right(kp) THEN Append(fw, kp) ELSE fw
    IN  IF Len(fw1) = SEQUENCE_LENGTH
        THEN [frame_window |-> Tail(fw1), sequences |-> Append(sq, fw1)]
        ELSE [frame_window |-> fw1, sequences |-> sq]

\* One pass of the loop body after extract_keypoints: append or clear, then
\* emit a copy of the full buffer and drop its first frame.
WindowStep(fw, sq, kp) ==
    LET fw1 == IF has_left(kp) \/ has_right(kp)
               THEN Append(fw, kp)
               ELSE IF Len(fw) > 0 THEN <<>> ELSE fw
    IN  IF Len(fw1) = SEQUENCE_LENGTH
        THEN [frame_window |-> Tail(fw1), sequences |-> Append(sq, fw1)]
        ELSE [frame_window |-> fw1, sequences |-> sq]

\* Mutant: the frames left in the buffer are returned as a short sequence.
ReturnValue_Flush(sq, fw) == IF Len(fw) > 0 THEN Append(sq, fw) ELSE sq

\* return sequences: what is left in the buffer is dropped
ReturnValue(sq, fw) == sq

\* The while loop of process_video over frames lo..hi of a video, given as
\* the detector's results per frame, from the buffer and sequences in st.
\* The range is halved only to keep the evaluation shallow: the frames are
\* still handled one by one, in order.
RECURSIVE Frames(_, _, _, _)
Frames(video, st, lo, hi) ==
    IF lo > hi THEN st
    ELSE IF lo = hi
    THEN WindowStep(st.frame_window, st.sequences, extract_keypoints(video[lo]))
    ELSE LET mid == (lo + hi) \div 2
             half == Frames(video, st, lo, mid)
         IN  IF Len(half.frame_window) >= 0
             THEN Frames(video, half, mid + 1, hi)
             ELSE half

process_video(video) ==
    LET end == Frames(video, [frame_window |-> NewBuffer, sequences |-> <<>>],
                      1, Len(video))
    IN  ReturnValue(end.sequences, end.frame_window)

InitWindow ==
    /\ call = 0
    /\ wpc = "idle"
    /\ pos = 0
    /\ keypoints = None
    /\ frame_window = <<>>
    /\ sequences = <<>>
    /\ returned = None
    /\ run = 0
    /\ longest = 0
    /\ MainOff
    /\ MirrorOff

\* cap = cv2.VideoCapture(file_path); sequences = []; frame_window = []
Open ==
    /\ wpc \in {"idle", "returned"}
    /\ call < MaxCalls
    /\ call' = call + 1
    /\ wpc' = "loop"
    /\ pos' = 0
    /\ keypoints' = None
    /\ frame_window' = NewBuffer
    /\ sequences' = <<>>
    /\ returned' = None
    /\ run' = 0
    /\ longest' = 0
    /\ UNCHANGED <<mvars, xvars>>

\* ret is True: one pass of the while loop
ReadFrame ==
    /\ wpc = "loop"
    /\ pos < MaxFrames
    /\ \E kind \in FrameKinds :
         LET kp == extract_keypoints(FrameResults(kind, Tag(call, pos + 1)))
             st == WindowStep(frame_window, sequences, kp)
             r  == IF has_left(kp) \/ has_right(kp) THEN run + 1 ELSE 0
         IN  /\ keypoints' = kp
             /\ frame_window' = st.frame_window
             /\ sequences' = st.sequences
             /\ run' = r
             /\ longest' = IF r > longest THEN r ELSE longest
    /\ pos' = pos + 1
    /\ UNCHANGED <<call, wpc, returned, mvars, xvars>>

\* ret is False: break, cap.release(), return sequences
EndOfVideo ==
    /\ wpc = "loop"
    /\ wpc' = "returned"
    /\ returned' = ReturnValue(sequences, frame_window)
    /\ UNCHANGED <<call, pos, keypoints, frame_window, sequences, run, longest, mvars, xvars>>

NextWindow == Open \/ ReadFrame \/ EndOfVideo

SpecWindow == InitWindow /\ [][NextWindow]_vars


\* ------------------------------------------------------------------- main
\* Entry names are strings, written as tuples of character codes so that
\* sorted() can compare them the way Python compares str.
Hello == <<104, 101, 108, 108, 111>>
HelloTxt == <<104, 101, 108, 108, 111, 46, 116, 120, 116>>
Thanks == <<116, 104, 97, 110, 107, 115>>

ClassNames == {Hello, Thanks}
FileNames == {HelloTxt}

\* a < b on str: the first differing character decides, a proper prefix is less
RECURSIVE StrLess(_, _)
StrLess(a, b) ==
    CASE b = <<>> -> FALSE
      [] a = <<>> -> TRUE
      [] a[1] # b[1] -> a[1] < b[1]
      [] OTHER -> StrLess(Tail(a), Tail(b))

RECURSIVE Insert(_, _)
Insert(x, sorted_list) ==
    IF sorted_list = <<>> THEN <<x>>
    ELSE IF StrLess(x, Head(sorted_list)) THEN <<x>> \o sorted_list
    ELSE <<Head(sorted_list)>> \o Insert(x, Tail(sorted_list))

\* sorted(listing)
RECURSIVE sorted(_)
sorted(listing) ==
    IF listing = <<>> THEN <<>> ELSE Insert(Head(listing), sorted(Tail(listing)))

\* {label: num for num, label in enumerate(actions)}
LabelMap(acts) ==
    [name \in {acts[i] : i \in 1..Len(acts)} |->
        (CHOOSE i \in 1..Len(acts) :
            /\ acts[i] = name
            /\ \A j \in (i + 1)..Len(acts) : acts[j] # name) - 1]

\* os.listdir gives the entries of a directory in an arbitrary order
Listings(entries) ==
    {l \in [1..Cardinality(entries) -> entries] :
        \A i, j \in 1..Cardinality(entries) : l[i] = l[j] => i = j}

\* The video files of the model: a number that makes their frames differ
\* from every other video's, and what the detector sees frame by frame.
Repeat(kind, n) == [i \in 1..n |-> kind]

VideoShapes ==
    { Repeat("hands", SEQUENCE_LENGTH + 1),
      Repeat("hands", SEQUENCE_LENGTH),
      Repeat("hands", SEQUENCE_LENGTH - 10) \o <<"poseonly">> \o Repeat("hands", 10) }

VideoFrames(video) ==
    [t \in 1..Len(video.kinds) |-> FrameResults(video.kinds[t], Tag(video.id, t))]

\* [label] * n
Times(label, n) == [i \in 1..n |-> label]

\* Mutant: each mirrored copy is put right behind its original.
VideoSamples_Interleaved(seqs) ==
    [i \in 1..(2 * Len(seqs)) |->
        IF i % 2 = 1 THEN MirrorSeq(seqs[(i + 1) \div 2]).seq
                     ELSE MirrorSeq(seqs[i \div 2]).ret]

\* What one video adds to X_data: X_data.extend(seqs) appends the arrays
\* themselves, the comprehension then builds the mirrored arrays and, through
\* the row views, flips the x columns of the arrays already appended, and
\* X_data.extend(mirrored_seqs) appends the mirrored arrays behind them.
VideoSamples(seqs) ==
    [i \in 1..Len(seqs) |-> MirrorSeq(seqs[i]).seq]
        \o [i \in 1..Len(seqs) |-> MirrorSeq(seqs[i]).ret]

\* Mutant: the labels of the mirrored copies are left out.
VideoLabels_Once(label, seqs) == Times(label, Len(seqs))

\* What one video adds to y_data
VideoLabels(label, seqs) == Times(label, Len(seqs)) \o Times(label, Len(seqs))

\* The directories of the model: any of the class directories and possibly a
\* plain file beside them, with at most MaxVideos video files in all.
ClassRank(name) == IF name = Hello THEN 0 ELSE 1

ShapeLists == UNION { [1..n -> VideoShapes] : n \in 0..MaxVideos }

RECURSIVE CountVideos(_, _)
CountVideos(lists, names) ==
    IF names = {} THEN 0
    ELSE LET n == CHOOSE x \in names : TRUE
         IN  Len(lists[n]) + CountVideos(lists, names \ {n})

Directory(names, lists) ==
    [n \in names |->
        IF n \in ClassNames
        THEN [isdir |-> TRUE,
              videos |-> [i \in 1..Len(lists[n]) |->
                            [id |-> ClassRank(n) * (MaxVideos + 1) + i,
                             kinds |-> lists[n][i]]]]
        ELSE [isdir |-> FALSE, videos |-> <<>>]]

InitMain ==
    /\ \E names \in SUBSET (ClassNames \cup FileNames) :
         \E lists \in [names \cap ClassNames -> ShapeLists] :
            /\ CountVideos(lists, names \cap ClassNames) <= MaxVideos
            /\ dataset_dir = Directory(names, lists)
    /\ pc = "start"
    /\ actions = <<>> /\ label_map = <<>> /\ ai = 0 /\ videos = <<>> /\ vi = 0
    /\ X_data = <<>> /\ y_data = <<>> /\ saved = FALSE /\ emitted = <<>>
    /\ WindowOff
    /\ MirrorOff

\* actions = sorted(os.listdir(dataset_path)); label_map = {...}; X_data = []
Start ==
    /\ pc = "start"
    /\ \E listing \in Listings(DOMAIN dataset_dir) :
         /\ actions' = sorted(listing)
         /\ label_map' = LabelMap(sorted(listing))
    /\ X_data' = <<>>
    /\ y_data' = <<>>
    /\ ai' = 0
    /\ pc' = "classes"
    /\ UNCHANGED <<dataset_dir, videos, vi, saved, emitted, wvars, xvars>>

\* for action in actions: if not os.path.isdir(action_path): continue
SkipEntry ==
    /\ pc = "classes"
    /\ ai < Len(actions)
    /\ ~dataset_dir[actions[ai + 1]].isdir
    /\ ai' = ai + 1
    /\ UNCHANGED <<dataset_dir, pc, actions, label_map, videos, vi, X_data, y_data,
                   saved, emitted, wvars, xvars>>

\* videos = os.listdir(action_path)
EnterClass ==
    /\ pc = "classes"
    /\ ai < Len(actions)
    /\ dataset_dir[actions[ai + 1]].isdir
    /\ videos' = dataset_dir[actions[ai + 1]].videos
    /\ vi' = 0
    /\ pc' = "videos"
    /\ UNCHANGED <<dataset_dir, actions, label_map, ai, X_data, y_data, saved,
                   emitted, wvars, xvars>>

\* One pass of "for video in tqdm(videos)"
ProcessVideo ==
    /\ pc = "videos"
    /\ vi < Len(videos)
    /\ LET seqs == process_video(VideoFrames(videos[vi + 1]))
           label == label_map[actions[ai + 1]]
       IN  /\ emitted' = Append(emitted, [name |-> actions[ai + 1], seqs |-> seqs])
           /\ IF Len(seqs) = 0
              THEN UNCHANGED <<X_data, y_data>>
              ELSE /\ X_data' = X_data \o VideoSamples(seqs)
                   /\ y_data' = y_data \o VideoLabels(label, seqs)
    /\ vi' = vi + 1
    /\ UNCHANGED <<dataset_dir, pc, actions, label_map, ai, videos, saved, wvars, xvars>>

\* the inner loop is exhausted: on to the next entry of actions
LeaveClass ==
    /\ pc = "videos"
    /\ vi = Len(videos)
    /\ ai' = ai + 1
    /\ pc' = "classes"
    /\ UNCHANGED <<dataset_dir, actions, label_map, videos, vi, X_data, y_data,
                   saved, emitted, wvars, xvars>>

\* if len(X_data) == 0: return; else np.save X.npy and y.npy
Finish ==
    /\ pc = "classes"
    /\ ai = Len(actions)
    /\ saved' = (Len(X_data) # 0)
    /\ pc' = "done"
    /\ UNCHANGED <<dataset_dir, actions, label_map, ai, videos, vi, X_data, y_data,
                   emitted, wvars, xvars>>

NextMain == Start \/ SkipEntry \/ EnterClass \/ ProcessVideo \/ LeaveClass \/ Finish

SpecMain == InitMain /\ [][NextMain]_vars

\* ------------------------------------------------- claims about process_video
Max(a, b) == IF a > b THEN a ELSE b

\* The presence-true frame at position t of the video being processed
PresentFrame(t) == extract_keypoints(FrameResults("hands", Tag(call, t)))

\* The 30 consecutive presence-true frames that start at position j
WindowAt(j) == [k \in 1..SEQUENCE_LENGTH |-> PresentFrame(j + k - 1)]

\* The emitted sequences that begin with a frame of the current run, which
\* covers positions pos - run + 1 .. pos
RunSequences ==
    SelectSeq(sequences,
              LAMBDA s : \E t \in (pos - run + 1)..pos : s[1] = PresentFrame(t))

\* C1: a run of n consecutive presence-true frames that starts on an empty
\* buffer has emitted exactly max(0, n - 29) sequences, the i-th being frames
\* i..i+29 of the run, so neighbours share 29 frames; after an emission the
\* buffer holds the last 29 frames; 31 frames give exactly 2 sequences.
C1_SlidingWindow ==
    wpc = "loop" =>
        LET first == pos - run
            cur == RunSequences
        IN  /\ Len(cur) = Max(0, run - (SEQUENCE_LENGTH - 1))
            /\ \A i \in 1..Len(cur) : cur[i] = WindowAt(first + i)
            /\ \A i \in 1..(Len(cur) - 1) :
                 \A k \in 1..(SEQUENCE_LENGTH - 1) : cur[i + 1][k] = cur[i][k + 1]
            /\ run >= SEQUENCE_LENGTH =>
                 /\ Len(frame_window) = SEQUENCE_LENGTH - 1
                 /\ frame_window = Tail(WindowAt(pos - SEQUENCE_LENGTH + 1))
            /\ run < SEQUENCE_LENGTH => Len(frame_window) = run
            /\ (run = pos /\ pos = SEQUENCE_LENGTH + 1) => Len(sequences) = 2

C1_Witness ==
    /\ wpc = "loop"
    /\ run = SEQUENCE_LENGTH + 1
    /\ Len(sequences) = 2
    /\ Len(frame_window) = SEQUENCE_LENGTH - 1

\* C2: a frame whose LeftHand and RightHand blocks both sum to zero, whatever
\* its Pose block holds, leaves the buffer empty and emits nothing; 29
\* presence-true frames and then such a frame give no sequence at all.
C2_PresenceReset ==
    [][(pos' = pos + 1 /\ ~has_left(keypoints') /\ ~has_right(keypoints'))
         => /\ frame_window' = <<>>
            /\ sequences' = sequences
            /\ (pos = SEQUENCE_LENGTH - 1 /\ run = pos) => sequences' = <<>>]_vars

C2_Witness ==
    /\ wpc = "loop"
    /\ pos = SEQUENCE_LENGTH
    /\ longest = SEQUENCE_LENGTH - 1
    /\ run = 0
    /\ Sum(Slice(keypoints, 2 * HAND_DIM, INPUT_DIM)) # 0
    /\ frame_window = <<>>
    /\ sequences = <<>>

\* C3: every sequence emitted or returned has exactly 30 frames of 171
\* values; the frames left in the buffer at the end of the video are not
\* returned, and a video without 30 contiguous presence-true frames returns
\* no sequence.
C3_FullSequencesOnly ==
    /\ \A i \in 1..Len(sequences) :
         /\ Len(sequences[i]) = SEQUENCE_LENGTH
         /\ \A k \in 1..SEQUENCE_LENGTH : Len(sequences[i][k]) = INPUT_DIM
    /\ wpc = "returned" =>
         /\ returned = sequences
         /\ \A i \in 1..Len(returned) : Len(returned[i]) = SEQUENCE_LENGTH
         /\ longest < SEQUENCE_LENGTH => returned = <<>>

C3_Witness ==
    /\ wpc = "returned"
    /\ Len(frame_window) \in 1..(SEQUENCE_LENGTH - 1)
    /\ longest = SEQUENCE_LENGTH - 1
    /\ returned = <<>>
    /\ pos = SEQUENCE_LENGTH + 1

\* C10: every emitted sequence is 30 presence-true frames that are
\* consecutive in the capture order of the video being processed; none spans
\* a presence-false frame and none holds a frame of an earlier video.
C10_WindowContent ==
    \A i \in 1..Len(sequences) :
        /\ \E j \in 1..(pos - SEQUENCE_LENGTH + 1) : sequences[i] = WindowAt(j)
        /\ \A k \in 1..Len(sequences[i]) :
             has_left(sequences[i][k]) \/ has_right(sequences[i][k])

C10_Witness ==
    /\ call = 2
    /\ Len(sequences) = 1
    /\ run = SEQUENCE_LENGTH
    /\ pos = SEQUENCE_LENGTH + 1


\* ---------------------------------------------------------- claims about main
\* The number of videos main has finished
RECURSIVE Handled(_)
Handled(j) ==
    IF j = 0 THEN 0
    ELSE Handled(j - 1) +
         (IF j <= ai THEN Len(dataset_dir[actions[j]].videos)
          ELSE IF pc = "videos" /\ j = ai + 1 THEN vi ELSE 0)

\* For every call of process_video: the sequences it returned, the entry of
\* actions the video belongs to and the number b of samples that precede
\* the samples of the video in X_data
RECURSIVE BlocksFrom(_, _)
BlocksFrom(list, b) ==
    IF list = <<>> THEN <<>>
    ELSE <<[b |-> b, k |-> Len(Head(list).seqs), seqs |-> Head(list).seqs,
            name |-> Head(list).name]>>
            \o BlocksFrom(Tail(list), b + 2 * Len(Head(list).seqs))

Blocks == BlocksFrom(emitted, 0)

\* The number of samples the blocks account for
SamplesOf(blocks) ==
    IF blocks = <<>> THEN 0
    ELSE blocks[Len(blocks)].b + 2 * blocks[Len(blocks)].k

\* C4 (as claimed): after the mirrored copies of a video are computed, every
\* original sequence in the dataset still holds the values the windower
\* emitted.
C4_OriginalsIntact ==
    LET blocks == Blocks
    IN  /\ Len(X_data) = SamplesOf(blocks)
        /\ \A n \in 1..Len(blocks) :
             LET h == blocks[n]
             IN  \A i \in 1..h.k : X_data[h.b + i] = h.seqs[i]

\* C5 (as claimed): the mirrored copy of every sequence is the sample right
\* behind the sample of that sequence.
C5_MirrorImmediatelyAfter ==
    LET blocks == Blocks
    IN  /\ Len(X_data) = SamplesOf(blocks)
        /\ \A n \in 1..Len(blocks) :
             LET h == blocks[n]
             IN  \A i \in 1..h.k :
                    LET m == MirrorSeq(h.seqs[i])
                    IN  /\ X_data[h.b + 2 * i - 1] \in {h.seqs[i], m.seq}
                        /\ X_data[h.b + 2 * i] = m.ret

\* C5 (amended): a video with k sequences adds the k arrays of its sequences
\* (with whatever the mirroring left in them) in emission order and then
\* their k mirrored copies in the same order, all with the label of its
\* class, so the mirrored copy of a sequence lies k samples behind it; the
\* videos follow each other in class, then listing order.
C5_MirrorsAfterOriginals ==
    LET blocks == Blocks
    IN  /\ Len(X_data) = SamplesOf(blocks)
        /\ Len(y_data) = Len(X_data)
        /\ \A n \in 1..Len(blocks) :
             LET h == blocks[n]
             IN  \A i \in 1..h.k :
                    LET m == MirrorSeq(h.seqs[i])
                    IN  /\ X_data[h.b + i] \in {h.seqs[i], m.seq}
                        /\ X_data[h.b + h.k + i] = m.ret
                        /\ y_data[h.b + i] = label_map[h.name]
                        /\ y_data[h.b + h.k + i] = label_map[h.name]

C5_Witness ==
    /\ pc = "done"
    /\ Len(emitted) = 2
    /\ emitted[1].name # emitted[2].name
    /\ Len(emitted[1].seqs) = 2
    /\ Len(emitted[2].seqs) = 1
    /\ Len(X_data) = 6

\* The number of sequences the videos of the blocks gave
RECURSIVE SequencesIn(_)
SequencesIn(blocks) ==
    IF blocks = <<>> THEN 0 ELSE Head(blocks).k + SequencesIn(Tail(blocks))

\* C8: every class whose videos gave k sequences has exactly 2k samples, the
\* ones its videos added, all with its label; a video without sequences adds
\* nothing; y_data is as long as X_data.
C8_AugmentationDoubling ==
    pc \notin {"off", "start"} =>
        LET blocks == Blocks
        IN  /\ Len(y_data) = Len(X_data)
            /\ Len(X_data) = 2 * SequencesIn(blocks)
            /\ Len(emitted) = Handled(Len(actions))
            /\ \A name \in DOMAIN dataset_dir :
                 LET mine == SelectSeq(blocks, LAMBDA h : h.name = name)
                     labelled == {i \in 1..Len(y_data) : y_data[i] = label_map[name]}
                 IN  /\ Cardinality(labelled) = 2 * SequencesIn(mine)
                     /\ labelled = UNION { (mine[j].b + 1)..(mine[j].b + 2 * mine[j].k)
                                             : j \in 1..Len(mine) }

C8_Witness ==
    /\ pc = "done"
    /\ Len(emitted) = 2
    /\ emitted[1].name = emitted[2].name
    /\ emitted[1].seqs = <<>>
    /\ Len(emitted[2].seqs) = 2
    /\ Cardinality({i \in 1..Len(y_data) : y_data[i] = label_map[emitted[1].name]}) = 4
    /\ Cardinality(DOMAIN dataset_dir) > 1

\* C9 (as claimed): the label map has one entry per class directory and
\* gives each its rank among the sorted class directory names, so the labels
\* are 0 .. C-1 for C classes, whatever order the listing came in.
ClassDirs == {name \in DOMAIN dataset_dir : dataset_dir[name].isdir}

C9_LabelsAreClassRanks ==
    pc \notin {"off", "start"} =>
        /\ DOMAIN label_map = ClassDirs
        /\ \A name \in ClassDirs :
             label_map[name] = Cardinality({d \in ClassDirs : StrLess(d, name)})


\* ------------------------------------------- the mirror transform on its own
\* A caller builds a sequence of one or more frames, mirrors it and mirrors
\* the result again.
MirrorInputs(g) ==
    { Results(lk, rk, pose, g) :
        lk \in {"none", "points", "example"}, rk \in {"none", "points"},
        pose \in BOOLEAN }

InitMirror ==
    /\ \E n \in 1..MaxMirrorLen :
         \E frames \in [1..n -> MirrorInputs(1) \cup MirrorInputs(2)] :
            /\ \A k \in 1..n : frames[k] \in MirrorInputs(k)
            /\ m_in = frames
            /\ seq = [k \in 1..n |-> extract_keypoints(frames[k])]
    /\ mirrored = None
    /\ twice = None
    /\ xpc = "built"
    /\ WindowOff
    /\ MainOff

\* mirrored = np.array([augment_mirror_frame(frame) for frame in seq])
MirrorOnce ==
    /\ xpc = "built"
    /\ LET m == MirrorSeq(seq)
       IN  /\ mirrored' = m.ret
           /\ seq' = m.seq
    /\ xpc' = "once"
    /\ UNCHANGED <<m_in, twice, wvars, mvars>>

\* twice = np.array([augment_mirror_frame(frame) for frame in mirrored])
MirrorTwice ==
    /\ xpc = "once"
    /\ LET m == MirrorSeq(mirrored)
       IN  /\ twice' = m.ret
           /\ mirrored' = m.seq
    /\ xpc' = "twice"
    /\ UNCHANGED <<m_in, seq, wvars, mvars>>

NextMirror == MirrorOnce \/ MirrorTwice

SpecMirror == InitMirror /\ [][NextMirror]_vars

\* C6 (as claimed): a frame with a left hand only, no right hand and no
\* pose, is mirrored to 63 zeros, then (1 - x, y, z) for each of the 21 left
\* hand points, then 45 zeros.
LeftHandOnly(results) ==
    /\ results.left_hand_landmarks # None
    /\ results.right_hand_landmarks = None
    /\ results.pose_landmarks = None

C6_MirrorOfLeftHandOnly ==
    xpc = "once" =>
        \A k \in 1..Len(m_in) :
            LeftHandOnly(m_in[k]) =>
                mirrored[k] =
                    Zeros(HAND_DIM)
                    \o Flatten([i \in 1..Len(m_in[k].left_hand_landmarks) |->
                                 [x |-> Unit - m_in[k].left_hand_landmarks[i].x,
                                  y |-> m_in[k].left_hand_landmarks[i].y,
                                  z |-> m_in[k].left_hand_landmarks[i].z]])
                    \o Zeros(POSE_DIM)

\* C7 (as claimed): for a sequence whose coordinates lie in [0, 1], mirroring
\* it and mirroring the result gives an array equal to the sequence.
InUnitRange(results) ==
    \A list \in {results.left_hand_landmarks, results.right_hand_landmarks,
                 results.pose_landmarks} :
        \A i \in 1..Len(list) :
            /\ list[i].x \in 0..Unit
            /\ list[i].y \in 0..Unit
            /\ list[i].z \in 0..Unit

C7_MirrorIsInvolution ==
    (xpc = "twice" /\ \A k \in 1..Len(m_in) : InUnitRange(m_in[k])) => twice = seq

=============================================================================
